---- MODULE Spec2Model ----
(***************************************************************************)
(* Model of the Qubic Risk Radar frontend: AuthProvider (AuthContext),     *)
(* ApiClient's request interceptor, ProtectedRoute, the route table of     *)
(* App.tsx, the OnboardingWizard page and the handlers of SignupPage,      *)
(* Analytics, WebhooksManagement and IncidentDetailPage.                   *)
(*                                                                         *)
(* JavaScript runs every handler and every promise continuation to         *)
(* completion, and React re-renders after it: one action of the model is   *)
(* one such task followed by the render it causes (route resolution,       *)
(* mounting and unmounting of pages, effects whose dependencies changed).  *)
(* State updates made by one task are batched into one render.             *)
(***************************************************************************)
EXTENDS Integers, Sequences, FiniteSets, TLC

(* Bounds of the model. *)
MaxInflight == 2
MaxTimers == 1

(***************************************************************************)
(* Values                                                                  *)
(***************************************************************************)
NoToken == "none"
Tokens == {"t1", "t2"}
StoredTokens == {NoToken, "t1"}

\* AuthContext.tsx: interface User / useState<User | null>(null)
Null == [id |-> "null", onboarding_completed |-> FALSE]
User(done) == [id |-> "u1", onboarding_completed |-> done]

Paths == {"/", "/login", "/signup", "/dashboard", "/detections", "/webhooks",
          "/analytics", "/onboarding"}
ProtectedPaths == {"/dashboard", "/detections", "/webhooks", "/analytics"}

\* IncidentCard links to /incidents/${incident.id}
IncidentPath == "/incidents/1"

\* The verification link of the signup e-mail, with and without its token
VerifyPaths == {"/verify-email?token=v1", "/verify-email"}

NoHeader == [present |-> FALSE, bearer |-> NoToken]

(***************************************************************************)
(* State                                                                   *)
(***************************************************************************)
VARIABLES
    routes,         \* which route table the application mounts
    srv,            \* what the backend knows: [completed]
    access_token,   \* localStorage 'access_token'
    user,           \* AuthProvider: useState<User | null>(null)
    loading,        \* AuthProvider: useState(true)
    booted,         \* the first render and the mount effects have run
    pathname,       \* react-router location.pathname
    from,           \* location.state.from left by ProtectedRoute's redirect
    wiz,            \* OnboardingWizard's state, its interval included
    pg,             \* the state of the mounted page other than the wizard
    net,            \* awaited promises (requests in flight), in order of issue
    timers,         \* pending setTimeout callbacks: where each navigates to,
                    \* the request whose continuation set it, and whether
                    \* the page that set it is still mounted
    hist            \* what the last task did: its name, the requests it sent,
                    \* the AuthProvider effects it applied, in order

vars == <<routes, srv, access_token, user, loading, booted, pathname, from,
          wiz, pg, net, timers, hist>>

\* The state as one record, so that handlers compose as functions.
Cur ==
    [routes |-> routes, srv |-> srv, access_token |-> access_token,
     user |-> user, loading |-> loading, booted |-> booted,
     pathname |-> pathname, from |-> from, wiz |-> wiz, pg |-> pg,
     net |-> net, timers |-> timers, hist |-> hist]

StateIs(W) ==
    /\ routes = W.routes
    /\ srv = W.srv
    /\ access_token = W.access_token
    /\ user = W.user
    /\ loading = W.loading
    /\ booted = W.booted
    /\ pathname = W.pathname
    /\ from = W.from
    /\ wiz = W.wiz
    /\ pg = W.pg
    /\ net = W.net
    /\ timers = W.timers
    /\ hist = W.hist

Commit(W) ==
    /\ routes' = W.routes
    /\ srv' = W.srv
    /\ access_token' = W.access_token
    /\ user' = W.user
    /\ loading' = W.loading
    /\ booted' = W.booted
    /\ pathname' = W.pathname
    /\ from' = W.from
    /\ wiz' = W.wiz
    /\ pg' = W.pg
    /\ net' = W.net
    /\ timers' = W.timers
    /\ hist' = W.hist

NoFrom == "none"

\* A task starts with an empty record of what it did.
\* cleared: the token was removed by logout or by a failed refreshUser and no
\* login has stored one since.  mounts: the render after the task mounted a
\* new OnboardingWizard.  outcome: what ProtectedRoute returned, when the task
\* is one render of it.
Begin(W, name) ==
    [W EXCEPT !.hist = [act |-> name, sent |-> <<>>, trace |-> <<>>,
                        rejected |-> FALSE, cleared |-> W.hist.cleared,
                        older |-> FALSE, own |-> TRUE, detail |-> "",
                        alert |-> "", mounts |-> FALSE, outcome |-> ""]]

\* The task is the continuation of promise p, settled with the given detail.
Resume(W, name, i, detail) ==
    [Begin(W, name) EXCEPT
        !.hist.older = W.net[i].stale, !.hist.own = W.net[i].own,
        !.hist.detail = detail,
        !.net = SubSeq(@, 1, i - 1) \o SubSeq(@, i + 1, Len(@))]

(***************************************************************************)
(* ApiClient: the request interceptor reads local storage at the moment    *)
(* the request is sent.                                                    *)
(***************************************************************************)
InterceptorNoCheck(token) == [present |-> TRUE, bearer |-> token]

Interceptor(token) ==
    IF token # NoToken THEN [present |-> TRUE, bearer |-> token] ELSE NoHeader

\* One awaited request.  stale: an /auth/me issued before the latest successful
\* login.  own: the component instance that awaits it is still mounted.
\* live: the interval that issued it has not been cleared.  then: what the
\* caller that awaits it does next, when that differs between callers.
\* authed: the request was sent with an Authorization header.
Promise(ep) ==
    [ep |-> ep, stale |-> FALSE, own |-> TRUE, live |-> FALSE, then |-> "",
     authed |-> FALSE]

\* A request passes the interceptor.
Request(W, ep) ==
    [W EXCEPT !.hist.sent = Append(@, [ep |-> ep,
                                       auth |-> Interceptor(W.access_token),
                                       stored |-> W.access_token])]

\* await
Await(W, p) ==
    [W EXCEPT !.net = Append(@, [p EXCEPT !.authed =
                                    Interceptor(W.access_token).present])]

\* apiClient.get / post / ...: the request passes the interceptor and the
\* caller awaits the response.
Send(W, ep) == Await(Request(W, ep), Promise(ep))

(***************************************************************************)
(* AuthProvider                                                            *)
(***************************************************************************)
Effect(W, op) == [W EXCEPT !.hist.trace = Append(@, op)]

SetItem(W, token) ==
    [Effect(W, "setItem") EXCEPT !.access_token = token, !.hist.cleared = FALSE]
RemoveItem(W) ==
    [Effect(W, "removeItem") EXCEPT !.access_token = NoToken,
                                    !.hist.cleared = TRUE]
SetUser(W, u) == [Effect(W, "setUser") EXCEPT !.user = u]
SetLoading(W, b) == [Effect(W, "setLoading") EXCEPT !.loading = b]
Throw(W) == [W EXCEPT !.hist.rejected = TRUE]

\* refreshUser up to its await
RefreshUserCall(W) == Send(W, "/auth/me")

\* refreshUser after its await: try / catch / finally
RefreshUserDoneNoFinally(W, ok, data) ==
    IF ok
    THEN SetLoading(SetUser(W, data), FALSE)
    ELSE SetUser(RemoveItem(W), Null)

RefreshUserDone(W, ok, data) ==
    IF ok
    THEN SetLoading(SetUser(W, data), FALSE)
    ELSE SetLoading(SetUser(RemoveItem(W), Null), FALSE)

\* The mount effect of AuthProvider
MountEffect(W) ==
    IF W.access_token # NoToken THEN RefreshUserCall(W) ELSE SetLoading(W, FALSE)

\* login up to its await
LoginCall(W) == Send(W, "/auth/login")

\* login after its await: a rejected request rejects login itself
LoginDoneSwapped(W, ok, data) ==
    IF ok THEN SetItem(SetUser(W, data.user), data.access_token)
    ELSE Throw(SetUser(RemoveItem(W), Null))

LoginDone(W, ok, data) ==
    IF ok THEN SetUser(SetItem(W, data.access_token), data.user) ELSE Throw(W)

\* The context value: isAuthenticated: !!user
IsAuthenticated(u) == u # Null

\* A successful login makes every /auth/me still in flight an older request.
MarkStale(W) ==
    [W EXCEPT !.net = [i \in 1..Len(@) |->
        IF @[i].ep = "/auth/me" THEN [@[i] EXCEPT !.stale = TRUE] ELSE @[i]]]

(***************************************************************************)
(* Routing: App.tsx and ProtectedRoute                                     *)
(***************************************************************************)
Spinner == [kind |-> "spinner", to |-> NoFrom, page |-> "none", from |-> NoFrom]
Redirect(to, fr) == [kind |-> "redirect", to |-> to, page |-> "none", from |-> fr]
Page(p) == [kind |-> "page", to |-> NoFrom, page |-> p, from |-> NoFrom]
Blank == Page("none")

ProtectedRouteNoExemption(ld, u, path, children) ==
    IF ld THEN Spinner
    ELSE IF u = Null THEN Redirect("/login", path)
    ELSE IF ~u.onboarding_completed THEN Redirect("/onboarding", NoFrom)
    ELSE Page(children)

ProtectedRoute(ld, u, path, children) ==
    IF ld THEN Spinner
    ELSE IF u = Null THEN Redirect("/login", path)
    ELSE IF ~u.onboarding_completed /\ path # "/onboarding"
         THEN Redirect("/onboarding", NoFrom)
    ELSE Page(children)

PageOf(path) ==
    CASE path = "/login" -> "LoginPage"
      [] path = "/signup" -> "SignupPage"
      [] path = "/dashboard" -> "Dashboard"
      [] path = "/detections" -> "Detections"
      [] path = "/webhooks" -> "WebhooksManagement"
      [] path = "/analytics" -> "Analytics"
      [] path = "/onboarding" -> "OnboardingWizard"
      [] path = IncidentPath -> "IncidentDetailPage"
      [] path \in VerifyPaths -> "VerifyEmailPage"
      [] OTHER -> "none"

\* <Routes> of App.tsx: what the element of the matching route renders
AppRoutes(ld, u, path) ==
    CASE path = "/" -> Redirect("/dashboard", NoFrom)
      [] path \in {"/login", "/signup"} \cup ProtectedPaths -> Page(PageOf(path))
      [] OTHER -> Blank

\* The route table in which the protected pages and the onboarding page are
\* wrapped in ProtectedRoute, with routes for the incident page and the
\* e-mail verification page
GuardedRoutes(ld, u, path) ==
    CASE path = "/" -> Redirect("/dashboard", NoFrom)
      [] path \in {"/login", "/signup"} \cup VerifyPaths -> Page(PageOf(path))
      [] path \in ProtectedPaths \cup {"/onboarding", IncidentPath} ->
            ProtectedRoute(ld, u, path, PageOf(path))
      [] OTHER -> Blank

Element(W) ==
    IF W.routes = "app" THEN AppRoutes(W.loading, W.user, W.pathname)
    ELSE GuardedRoutes(W.loading, W.user, W.pathname)

\* <Navigate replace>: follow redirects until an element renders
RECURSIVE Resolve(_, _)
Resolve(W, fuel) ==
    LET e == Element(W) IN
    IF e.kind = "redirect" /\ fuel > 0
    THEN Resolve([W EXCEPT !.pathname = e.to, !.from = e.from], fuel - 1)
    ELSE W

\* What is on screen
Shown(W) == LET e == Element(W) IN IF e.kind = "page" THEN e.page ELSE e.kind

(***************************************************************************)
(* OnboardingWizard                                                        *)
(***************************************************************************)
\* interval: the interval created by the last run of the polling effect is
\* still set.  sawReceived: a poll of this instance has reported received.
WizInit ==
    [mounted |-> TRUE, currentStep |-> 1, loading |-> FALSE, error |-> "",
     webhookUrl |-> "", webhookSecret |-> "", webhookConfigured |-> FALSE,
     testReceived |-> FALSE, polling |-> FALSE,
     discordVerified |-> FALSE, telegramVerified |-> FALSE,
     discordLoading |-> FALSE, telegramLoading |-> FALSE, interval |-> FALSE,
     sawReceived |-> FALSE]

WizOff == [WizInit EXCEPT !.mounted = FALSE]

WizardEps == {"/onboarding/status", "/onboarding/webhook",
              "/onboarding/test-status", "/onboarding/verify-discord",
              "/onboarding/verify-telegram", "/onboarding/complete"}

\* React ignores a state update of a component that has unmounted: p is the
\* promise whose continuation makes the update.
SetWiz(W, p, w) == IF p.own /\ W.wiz.mounted THEN [W EXCEPT !.wiz = w] ELSE W

\* navigate(to)
NavigateTo(W, to) == [W EXCEPT !.pathname = to, !.from = NoFrom]

\* err.response?.data?.detail || fallback
Detail(detail, fallback) == IF detail # "" THEN detail ELSE fallback

LoadStatusCall(W) == Send(W, "/onboarding/status")

LoadStatusDone(W, p, ok, data) ==
    IF ~ok THEN W
    ELSE IF data.completed THEN NavigateTo(W, "/dashboard")
    ELSE SetWiz(W, p,
           [W.wiz EXCEPT
              !.currentStep = IF data.webhook_configured /\ data.current_step = 1
                              THEN 2 ELSE data.current_step,
              !.webhookConfigured = data.webhook_configured,
              !.testReceived = data.webhook_test_received,
              !.discordVerified = data.discord_verified,
              !.telegramVerified = data.telegram_verified])

HandleCreateWebhookCall(W) ==
    Send([W EXCEPT !.wiz.error = "", !.wiz.loading = TRUE], "/onboarding/webhook")

HandleCreateWebhookDoneAdvances(W, p, ok, data) ==
    IF ok
    THEN SetWiz(W, p, [W.wiz EXCEPT !.webhookUrl = data.webhook_url,
                                    !.webhookSecret = data.webhook_secret,
                                    !.webhookConfigured = TRUE,
                                    !.currentStep = 2,
                                    !.loading = FALSE])
    ELSE SetWiz(W, p, [W.wiz EXCEPT
                         !.error = Detail(data.detail, "Failed to create webhook"),
                         !.currentStep = 2,
                         !.loading = FALSE])

HandleCreateWebhookDone(W, p, ok, data) ==
    IF ok
    THEN SetWiz(W, p, [W.wiz EXCEPT !.webhookUrl = data.webhook_url,
                                    !.webhookSecret = data.webhook_secret,
                                    !.webhookConfigured = TRUE,
                                    !.currentStep = 2,
                                    !.loading = FALSE])
    ELSE SetWiz(W, p, [W.wiz EXCEPT
                         !.error = Detail(data.detail, "Failed to create webhook"),
                         !.loading = FALSE])

\* clearInterval: the polls the interval issued are no longer of a set interval
ClearInterval(W) ==
    [W EXCEPT !.wiz.interval = FALSE,
              !.net = [i \in 1..Len(@) |-> [@[i] EXCEPT !.live = FALSE]]]

\* The interval's callback up to its await
PollCall(W) ==
    LET W1 == Send(W, "/onboarding/test-status") IN
    [W1 EXCEPT !.net[Len(W1.net)].live = TRUE]

\* The interval's callback after its await.  clearInterval(interval) clears the
\* interval of the effect run that issued the poll.
PollDoneStopsOnFailure(W, p, ok, data) ==
    IF ok /\ data.received
    THEN IF p.live
         THEN ClearInterval(SetWiz(W, p, [W.wiz EXCEPT !.testReceived = TRUE,
                                                       !.polling = FALSE,
                                                       !.currentStep = 3,
                                                       !.sawReceived = TRUE]))
         ELSE SetWiz(W, p, [W.wiz EXCEPT !.testReceived = TRUE,
                                         !.polling = FALSE,
                                         !.currentStep = 3,
                                         !.sawReceived = TRUE])
    ELSE IF p.live
         THEN ClearInterval(SetWiz(W, p, [W.wiz EXCEPT !.polling = FALSE]))
         ELSE W

PollDone(W, p, ok, data) ==
    IF ok /\ data.received
    THEN IF p.live
         THEN ClearInterval(SetWiz(W, p, [W.wiz EXCEPT !.testReceived = TRUE,
                                                       !.polling = FALSE,
                                                       !.currentStep = 3,
                                                       !.sawReceived = TRUE]))
         ELSE SetWiz(W, p, [W.wiz EXCEPT !.testReceived = TRUE,
                                         !.polling = FALSE,
                                         !.currentStep = 3,
                                         !.sawReceived = TRUE])
    ELSE W

PollCond(w) == w.currentStep = 2 /\ w.webhookConfigured /\ ~w.testReceived
PollDeps(w) == <<w.currentStep, w.webhookConfigured, w.testReceived>>

\* useEffect(..., [currentStep, webhookConfigured, testReceived]) after a render
\* of the mounted wizard: old is the wizard as last rendered.
PollEffect(W, old) ==
    IF ~old.mounted \/ PollDeps(old) # PollDeps(W.wiz)
    THEN LET W1 == ClearInterval(W) IN
         IF PollCond(W1.wiz)
         THEN [W1 EXCEPT !.wiz.polling = TRUE, !.wiz.interval = TRUE]
         ELSE W1
    ELSE W

HandleVerifyCall(W, ch) ==
    IF ch = "discord"
    THEN Send([W EXCEPT !.wiz.error = "", !.wiz.discordLoading = TRUE],
              "/onboarding/verify-discord")
    ELSE Send([W EXCEPT !.wiz.error = "", !.wiz.telegramLoading = TRUE],
              "/onboarding/verify-telegram")

HandleVerifyDiscordDone(W, p, ok, data) ==
    LET w == IF ok /\ data.success THEN [W.wiz EXCEPT !.discordVerified = TRUE]
             ELSE IF ok THEN [W.wiz EXCEPT !.error =
                                Detail(data.error, "Discord verification failed")]
             ELSE [W.wiz EXCEPT !.error =
                     Detail(data.detail, "Failed to verify Discord")]
    IN SetWiz(W, p, [w EXCEPT !.discordLoading = FALSE])

HandleVerifyTelegramDone(W, p, ok, data) ==
    LET w == IF ok /\ data.success THEN [W.wiz EXCEPT !.telegramVerified = TRUE]
             ELSE IF ok THEN [W.wiz EXCEPT !.error =
                                Detail(data.error, "Telegram verification failed")]
             ELSE [W.wiz EXCEPT !.error =
                     Detail(data.detail, "Failed to verify Telegram")]
    IN SetWiz(W, p, [w EXCEPT !.telegramLoading = FALSE])

NotVerifiedMsg ==
    "Please verify at least one notification channel (Discord or Telegram)"

HandleCompleteNoCheck(W) ==
    Send([W EXCEPT !.wiz.error = "", !.wiz.loading = TRUE],
         "/onboarding/complete")

HandleComplete(W) ==
    IF ~W.wiz.discordVerified /\ ~W.wiz.telegramVerified
    THEN [W EXCEPT !.wiz.error = NotVerifiedMsg]
    ELSE Send([W EXCEPT !.wiz.error = "", !.wiz.loading = TRUE],
              "/onboarding/complete")

\* setTimeout(() => navigate(to), ...)
SetTimeout(W, p, to) ==
    [W EXCEPT !.timers = Append(@, [to |-> to, ep |-> p.ep, own |-> p.own])]

HandleCompleteDone(W, p, ok, data) ==
    IF ok THEN SetTimeout(W, p, "/dashboard")
    ELSE SetWiz(W, p, [W.wiz EXCEPT
                         !.error = Detail(data.detail,
                                          "Failed to complete onboarding"),
                         !.loading = FALSE])

(***************************************************************************)
(* Pages: SignupPage, Analytics, WebhooksManagement, IncidentDetailPage    *)
(***************************************************************************)
\* The state of the one mounted page.  overview: overview is not null.
\* webhooks: the list is not empty.  editingWebhook: it is not null.
\* status: incident.status of the query's data, "none" while there is none;
\* for VerifyEmailPage its status state.
PgInit(kind) ==
    [kind |-> kind,
     loading |-> kind \in {"Analytics", "WebhooksManagement",
                           "IncidentDetailPage"},
     error |-> "", success |-> FALSE, overview |-> FALSE,
     webhooks |-> FALSE, showEditor |-> FALSE, editingWebhook |-> FALSE,
     status |-> IF kind = "VerifyEmailPage" THEN "loading" ELSE "none",
     message |-> "", isPending |-> FALSE]

PgOff == PgInit("none")

StatefulPages ==
    {"SignupPage", "Analytics", "WebhooksManagement", "IncidentDetailPage",
     "VerifyEmailPage"}

\* The promises the pages await: requests by method and path, and the
\* Promise.all of loadData
PageEps ==
    {"POST /auth/signup", "loadData", "POST /api/analytics/reports/generate",
     "GET /api/webhooks", "POST /api/webhooks", "PUT /api/webhooks/1",
     "DELETE /api/webhooks/1", "POST /api/webhooks/1/regenerate-secret",
     "GET /incidents/1", "PATCH /incidents/1", "GET /auth/verify-email"}

\* A state update by the continuation of promise p
SetPg(W, p, g) == IF p.own THEN [W EXCEPT !.pg = g] ELSE W

\* A call made by a handler or an effect of the mounted page, not by a
\* continuation
Mounted == Promise("mount")

\* The promise of a request made by the continuation of promise p
Chained(p, ep, then) == [Promise(ep) EXCEPT !.own = p.own, !.then = then]

\* window.alert
Alert(W, msg) == [W EXCEPT !.hist.alert = msg]

\* AuthProvider.signup up to its await
SignupCall(W) == Send(W, "POST /auth/signup")

\* SignupPage.handleSubmit
SignupHandleSubmit(W) ==
    SignupCall([W EXCEPT !.pg.error = "", !.pg.loading = TRUE])

SignupHandleSubmitDone(W, p, ok, data) ==
    IF ok
    THEN SetPg(W, p, [W.pg EXCEPT !.success = TRUE, !.loading = FALSE])
    ELSE SetPg(W, p, [W.pg EXCEPT
                        !.error = Detail(data.detail, "Failed to create account"),
                        !.loading = FALSE])

\* Analytics.loadData up to its await: Promise.all of two requests
LoadDataCall(W, p, then) ==
    Await(Request(Request(W, "GET /api/analytics/overview"),
                  "GET /api/analytics/reports"),
          Chained(p, "loadData", then))

\* loadData after its await (try / catch / finally), then the caller that
\* awaited loadData
LoadDataDone(W, p, ok) ==
    IF p.then = "generate"
    THEN Alert(SetPg(W, p, [W.pg EXCEPT !.overview = IF ok THEN TRUE ELSE @,
                                        !.loading = FALSE]),
               "Report generated successfully!")
    ELSE SetPg(W, p, [W.pg EXCEPT !.overview = IF ok THEN TRUE ELSE @,
                                  !.loading = FALSE])

HandleGenerateReport(W) == Send(W, "POST /api/analytics/reports/generate")

HandleGenerateReportDoneRetries(W, p, ok) ==
    IF ok THEN LoadDataCall(W, p, "generate")
    ELSE Await(Request(Alert(W, "Failed to generate report"),
                       "POST /api/analytics/reports/generate"),
               Chained(p, "POST /api/analytics/reports/generate", ""))

HandleGenerateReportDone(W, p, ok) ==
    IF ok THEN LoadDataCall(W, p, "generate")
    ELSE Alert(W, "Failed to generate report")

\* WebhooksManagement.loadWebhooks up to its await
LoadWebhooksCall(W, p, then) ==
    Await(Request(W, "GET /api/webhooks"), Chained(p, "GET /api/webhooks", then))

\* onSave after its await of loadWebhooks
OnSaveDone(W, p) ==
    SetPg(W, p, [W.pg EXCEPT !.showEditor = FALSE, !.editingWebhook = FALSE])

\* loadWebhooks after its await (try / catch / finally), then the caller
\* that awaited loadWebhooks
LoadWebhooksDone(W, p, ok, data) ==
    IF p.then = "save"
    THEN OnSaveDone(SetPg(W, p, [W.pg EXCEPT
                                   !.webhooks = IF ok THEN data.some ELSE @,
                                   !.loading = FALSE]),
                    p)
    ELSE SetPg(W, p, [W.pg EXCEPT !.webhooks = IF ok THEN data.some ELSE @,
                                  !.loading = FALSE])

HandleDelete(W, confirmed) ==
    IF ~confirmed THEN W ELSE Send(W, "DELETE /api/webhooks/1")

HandleDeleteDone(W, p, ok) == IF ok THEN LoadWebhooksCall(W, p, "") ELSE W

HandleRegenerateSecret(W, confirmed) ==
    IF ~confirmed THEN W
    ELSE Send(W, "POST /api/webhooks/1/regenerate-secret")

HandleRegenerateSecretDone(W, p, ok, data) ==
    IF ok
    THEN LoadWebhooksCall(Alert(W, "New secret: " \o data.new_secret), p, "")
    ELSE W

\* WebhookEditorModal.handleSubmit
EditorHandleSubmit(W) ==
    IF W.pg.editingWebhook THEN Send(W, "PUT /api/webhooks/1")
    ELSE Send(W, "POST /api/webhooks")

EditorHandleSubmitDone(W, p, ok) ==
    IF ok THEN LoadWebhooksCall(W, p, "save")
    ELSE Alert(W, "Failed to save webhook")

\* useIncidentDetail: the query fetches
IncidentQueryCall(W, p) ==
    Await(Request(W, "GET /incidents/1"), Chained(p, "GET /incidents/1", ""))

IncidentQueryDone(W, p, ok, data) ==
    IF ok
    THEN SetPg(W, p, [W.pg EXCEPT !.status = data.status, !.error = "",
                                  !.loading = FALSE])
    ELSE SetPg(W, p, [W.pg EXCEPT !.error = "error", !.loading = FALSE])

\* useUpdateIncident: mutationFn up to its await
MutationFn(W) == Send(W, "PATCH /incidents/1")

\* mutateAsync: the mutation is pending and mutationFn runs once (the
\* QueryClient sets no retry for mutations)
MutateAsync(W) == MutationFn([W EXCEPT !.pg.isPending = TRUE])

\* onSuccess: invalidateQueries refetches the query the mounted page observes
OnSuccess(W, p) == IF p.own THEN IncidentQueryCall(W, p) ELSE W

MutateAsyncDone(W, p, ok) ==
    IF ok THEN OnSuccess(SetPg(W, p, [W.pg EXCEPT !.isPending = FALSE]), p)
    ELSE Throw(SetPg(W, p, [W.pg EXCEPT !.isPending = FALSE]))

\* IncidentDetailPage.handleStatusUpdate
HandleStatusUpdate(W, id, newStatus) == IF id = "" THEN W ELSE MutateAsync(W)

\* VerifyEmailPage's effect up to its await: verifyEmail()
VerifyEmailCall(W, token) ==
    IF token = ""
    THEN [W EXCEPT !.pg.status = "error",
                   !.pg.message = "Invalid verification link"]
    ELSE Send(W, "GET /auth/verify-email")

\* verifyEmail after its await
VerifyEmailDone(W, p, ok, data) ==
    IF ok
    THEN SetTimeout(SetPg(W, p, [W.pg EXCEPT !.status = "success",
                                             !.message = data.message]),
                    p, "/login")
    ELSE SetPg(W, p, [W.pg EXCEPT
                        !.status = "error",
                        !.message = Detail(data.detail, "Failed to verify email")])

\* searchParams.get('token')
TokenParam(path) == IF path = "/verify-email?token=v1" THEN "v1" ELSE ""

\* Unmount of the page: its state is dropped
UnmountPg(W) ==
    [W EXCEPT !.pg = PgOff,
              !.net = [i \in 1..Len(@) |->
                  IF @[i].ep \in PageEps THEN [@[i] EXCEPT !.own = FALSE]
                  ELSE @[i]],
              !.timers = [i \in 1..Len(@) |->
                  IF @[i].ep \in PageEps THEN [@[i] EXCEPT !.own = FALSE]
                  ELSE @[i]]]

\* Mount of a page: initial state, then its mount effect
MountPg(W, kind) ==
    CASE kind = "Analytics" ->
            LoadDataCall([W EXCEPT !.pg = PgInit(kind)], Mounted, "")
      [] kind = "WebhooksManagement" ->
            LoadWebhooksCall([W EXCEPT !.pg = PgInit(kind)], Mounted, "")
      [] kind = "IncidentDetailPage" ->
            IncidentQueryCall([W EXCEPT !.pg = PgInit(kind)], Mounted)
      [] kind = "SignupPage" -> [W EXCEPT !.pg = PgInit(kind)]
      [] kind = "VerifyEmailPage" ->
            VerifyEmailCall([W EXCEPT !.pg = PgInit(kind)], TokenParam(W.pathname))
      [] OTHER -> W

(***************************************************************************)
(* Rendering: route resolution, unmount and mount of the wizard, effects   *)
(***************************************************************************)
\* Unmount: the cleanup of the polling effect runs and the instance is gone.
Gone(W) ==
    [W EXCEPT !.wiz = [WizOff EXCEPT !.interval = W.wiz.interval],
              !.net = [i \in 1..Len(@) |->
                  IF @[i].ep \in WizardEps THEN [@[i] EXCEPT !.own = FALSE]
                  ELSE @[i]],
              !.timers = [i \in 1..Len(@) |->
                  IF @[i].ep \in WizardEps THEN [@[i] EXCEPT !.own = FALSE]
                  ELSE @[i]]]

UnmountNoCleanup(W) == Gone(W)

Unmount(W) == Gone(ClearInterval(W))

\* Mount: initial state, then the effects in order (loadStatus, polling).
Mount(W) ==
    LoadStatusCall([W EXCEPT !.wiz = [WizInit EXCEPT !.interval = W.wiz.interval],
                             !.hist.mounts = TRUE])

\* The render after a task, in four steps.  W is the state the task left, W1
\* that state with its redirects followed, old the state as last rendered.
\* The wizard stays mounted only if the task did not navigate and its route
\* still renders it.
Keep(W, W1, old) ==
    /\ old.wiz.mounted
    /\ W.wiz.mounted
    /\ W.pathname = old.pathname
    /\ Shown(W1) = "OnboardingWizard"

RenderEffects(W3, keep, old) ==
    IF W3.wiz.mounted
    THEN PollEffect(W3, IF keep THEN old.wiz ELSE WizOff)
    ELSE W3

RenderMount(W2, keep, old) ==
    RenderEffects(IF Shown(W2) = "OnboardingWizard" /\ ~W2.wiz.mounted
                  THEN Mount(W2) ELSE W2,
                  keep, old)

RenderUnmount(W1, keep, old) ==
    RenderMount(IF W1.wiz.mounted /\ ~keep THEN Unmount(W1) ELSE W1, keep, old)

RenderResolved(W, W1, old) == RenderUnmount(W1, Keep(W, W1, old), old)

\* The page stays mounted only if the task did not navigate and its route
\* still renders it.  R is the state after the wizard's part of the render.
RenderPages(R, W, old) ==
    IF /\ old.pg.kind # "none"
       /\ W.pathname = old.pathname
       /\ Shown(R) = old.pg.kind
    THEN R
    ELSE MountPg(UnmountPg(R), Shown(R))

Render(W, old) == RenderPages(RenderResolved(W, Resolve(W, 3), old), W, old)

\* The order of the promises in net carries no information (responses arrive
\* in any order): net is kept sorted.
EpRank(ep) ==
    CASE ep = "/auth/me" -> 0
      [] ep = "/auth/login" -> 1
      [] ep = "/onboarding/status" -> 2
      [] ep = "/onboarding/webhook" -> 3
      [] ep = "/onboarding/test-status" -> 4
      [] ep = "/onboarding/verify-discord" -> 5
      [] ep = "/onboarding/verify-telegram" -> 6
      [] ep = "/onboarding/complete" -> 7
      [] ep = "POST /auth/signup" -> 8
      [] ep = "loadData" -> 9
      [] ep = "POST /api/analytics/reports/generate" -> 10
      [] ep = "GET /api/webhooks" -> 11
      [] ep = "POST /api/webhooks" -> 12
      [] ep = "PUT /api/webhooks/1" -> 13
      [] ep = "DELETE /api/webhooks/1" -> 14
      [] ep = "POST /api/webhooks/1/regenerate-secret" -> 15
      [] ep = "GET /incidents/1" -> 16
      [] ep = "PATCH /incidents/1" -> 17
      [] ep = "GET /auth/verify-email" -> 18
      [] OTHER -> 19

Key(p) ==
    32 * EpRank(p.ep) + (IF p.stale THEN 16 ELSE 0) + (IF p.own THEN 8 ELSE 0)
    + (IF p.live THEN 4 ELSE 0) + (IF p.then # "" THEN 2 ELSE 0)
    + (IF p.authed THEN 1 ELSE 0)

RECURSIVE Insert(_, _)
Insert(sorted, p) ==
    IF sorted = <<>> THEN <<p>>
    ELSE IF Key(p) <= Key(Head(sorted)) THEN <<p>> \o sorted
    ELSE <<Head(sorted)>> \o Insert(Tail(sorted), p)

RECURSIVE Sorted(_)
Sorted(s) == IF s = <<>> THEN <<>> ELSE Insert(Sorted(Tail(s)), Head(s))

\* A task fits the bounds of the model.
Fits(W) == Len(W.net) <= MaxInflight /\ Len(W.timers) <= MaxTimers

\* One task: handler, render, commit.
Task(W) ==
    \E R \in {Render(W, Cur)} : Fits(R) /\ Commit([R EXCEPT !.net = Sorted(@)])

(***************************************************************************)
(* Responses of the backend                                                *)
(***************************************************************************)
FailData == [detail : {"", "detail"}]
LoginData == [access_token : Tokens, user : {User(srv.completed)}]
StatusData ==
    [completed : {srv.completed}, current_step : 1..3,
     webhook_configured : BOOLEAN, webhook_test_received : BOOLEAN,
     discord_verified : BOOLEAN, telegram_verified : BOOLEAN]
WebhookData == [webhook_url : {"url1"}, webhook_secret : {"sec1"}]
TestStatusData == [received : BOOLEAN]
VerifyData ==
    {[success |-> TRUE, error |-> ""]} \cup [success : {FALSE}, error : {"", "error"}]

(***************************************************************************)
(* Initial state: the document has loaded, nothing has rendered yet        *)
(***************************************************************************)
Fresh(rt, sv, token, path) ==
    [routes |-> rt, srv |-> sv, access_token |-> token, user |-> Null,
     loading |-> TRUE, booted |-> FALSE, pathname |-> path, from |-> NoFrom,
     wiz |-> WizOff, pg |-> PgOff, net |-> <<>>, timers |-> <<>>,
     hist |-> [act |-> "load", sent |-> <<>>, trace |-> <<>>,
               rejected |-> FALSE, cleared |-> FALSE, older |-> FALSE,
               own |-> TRUE, detail |-> "", alert |-> "", mounts |-> FALSE,
               outcome |-> ""]]

InitWith(rt) ==
    \E token \in StoredTokens, path \in Paths, done \in BOOLEAN :
        StateIs(Fresh(rt, [completed |-> done], token, path))

(***************************************************************************)
(* Actions: page load, navigation, AuthProvider                            *)
(***************************************************************************)
\* The first render and the mount effects.  ProtectedRoute shows the spinner
\* while loading, so AuthProvider's effect is followed by another render.
Boot ==
    /\ ~booted
    /\ \E W0 \in {[Begin(Cur, "boot") EXCEPT !.booted = TRUE]} :
       \E W1 \in {Render(W0, W0)} :
       \E W3 \in {Render(MountEffect(W1), W1)} :
           Fits(W3) /\ Commit([W3 EXCEPT !.net = Sorted(@)])

\* The user loads a URL of the application (address bar, reload): the page and
\* its requests are gone, local storage stays.
Reload ==
    /\ booted
    /\ \E path \in Paths :
         Commit([Fresh(routes, srv, access_token, path) EXCEPT
                   !.hist.cleared = hist.cleared])

\* A <Link> or the browser's back and forward buttons
Navigate ==
    /\ booted
    /\ \E path \in Paths \ {pathname} :
         Task(NavigateTo(Begin(Cur, "navigate"), path))

\* A component calls refreshUser()
RefreshUser ==
    /\ booted
    /\ Task(RefreshUserCall(Begin(Cur, "refreshUser")))

\* The backend answers /auth/me with the user only if the request carried a
\* token.
RefreshUserResponse ==
    \E i \in 1..Len(net) :
        /\ net[i].ep = "/auth/me"
        /\ \/ /\ net[i].authed
              /\ Task(RefreshUserDone(Resume(Cur, "refreshUserOk", i, ""), TRUE,
                                      User(srv.completed)))
           \/ Task(RefreshUserDone(Resume(Cur, "refreshUserFail", i, ""), FALSE,
                                   Null))

\* LoginPage submits the form
Login ==
    /\ booted
    /\ Shown(Cur) = "LoginPage"
    /\ Task(LoginCall(Begin(Cur, "login")))

LoginResponse ==
    \E i \in 1..Len(net) :
        /\ net[i].ep = "/auth/login"
        /\ \/ \E data \in LoginData :
                Task(MarkStale(LoginDone(Resume(Cur, "loginOk", i, ""), TRUE,
                                         data)))
           \/ \E data \in LoginData :
                Task(LoginDone(Resume(Cur, "loginFail", i, ""), FALSE, data))

LogoutEffects(W) == SetUser(RemoveItem(W), Null)

Logout ==
    /\ booted
    /\ \E W \in {LogoutEffects(Begin(Cur, "logout"))} :
       Commit([Fresh(routes, srv, W.access_token, "/login") EXCEPT !.hist = W.hist])

(***************************************************************************)
(* Actions: OnboardingWizard                                               *)
(***************************************************************************)
LoadStatusResponse ==
    \E i \in 1..Len(net) :
        /\ net[i].ep = "/onboarding/status"
        /\ \/ \E data \in StatusData :
                Task(LoadStatusDone(Resume(Cur, "loadStatusOk", i, ""), net[i],
                                    TRUE, data))
           \/ Task(LoadStatusDone(Resume(Cur, "loadStatusFail", i, ""), net[i],
                                  FALSE, [detail |-> ""]))

\* The form of step 1; its button is disabled while loading
CreateWebhook ==
    /\ wiz.mounted /\ wiz.currentStep = 1 /\ ~wiz.webhookConfigured
    /\ ~wiz.loading
    /\ Task(HandleCreateWebhookCall(Begin(Cur, "createWebhook")))

CreateWebhookResponse ==
    \E i \in 1..Len(net) :
        /\ net[i].ep = "/onboarding/webhook"
        /\ \/ \E data \in WebhookData :
                Task(HandleCreateWebhookDone(
                       Resume(Cur, "createWebhookOk", i, ""), net[i], TRUE, data))
           \/ \E data \in FailData :
                Task(HandleCreateWebhookDone(
                       Resume(Cur, "createWebhookFail", i, data.detail), net[i], FALSE,
                       data))

\* 'Next: Test Webhook'
NextTestWebhook ==
    /\ wiz.mounted /\ wiz.currentStep = 1 /\ wiz.webhookConfigured
    /\ Task([Begin(Cur, "nextTestWebhook") EXCEPT !.wiz.currentStep = 2])

\* 'Continue to Notifications'
ContinueToNotifications ==
    /\ wiz.mounted /\ wiz.currentStep = 2 /\ wiz.testReceived
    /\ Task([Begin(Cur, "continue") EXCEPT !.wiz.currentStep = 3])

\* setInterval(..., 3000) fires
IntervalTick ==
    /\ wiz.interval
    /\ Task(PollCall(Begin(Cur, "tick")))

PollResponse ==
    \E i \in 1..Len(net) :
        /\ net[i].ep = "/onboarding/test-status"
        /\ \/ \E data \in TestStatusData :
                Task(PollDone(Resume(Cur, IF data.received THEN "pollReceived"
                                     ELSE "pollNotReceived", i, ""),
                              net[i], TRUE, data))
           \/ Task(PollDone(Resume(Cur, "pollFail", i, ""), net[i], FALSE,
                            [received |-> FALSE]))

VerifyDiscord ==
    /\ wiz.mounted /\ wiz.currentStep = 3
    /\ ~wiz.discordVerified /\ ~wiz.discordLoading
    /\ Task(HandleVerifyCall(Begin(Cur, "verifyDiscord"), "discord"))

VerifyTelegram ==
    /\ wiz.mounted /\ wiz.currentStep = 3
    /\ ~wiz.telegramVerified /\ ~wiz.telegramLoading
    /\ Task(HandleVerifyCall(Begin(Cur, "verifyTelegram"), "telegram"))

VerifyResponse ==
    \E i \in 1..Len(net) :
        \/ /\ net[i].ep = "/onboarding/verify-discord"
           /\ \/ \E data \in VerifyData :
                   Task(HandleVerifyDiscordDone(
                          Resume(Cur, "verifyDiscordOk", i, ""), net[i], TRUE,
                          data))
              \/ \E data \in FailData :
                   Task(HandleVerifyDiscordDone(
                          Resume(Cur, "verifyDiscordFail", i, data.detail), net[i], FALSE,
                          data))
        \/ /\ net[i].ep = "/onboarding/verify-telegram"
           /\ \/ \E data \in VerifyData :
                   Task(HandleVerifyTelegramDone(
                          Resume(Cur, "verifyTelegramOk", i, ""), net[i], TRUE,
                          data))
              \/ \E data \in FailData :
                   Task(HandleVerifyTelegramDone(
                          Resume(Cur, "verifyTelegramFail", i, data.detail), net[i], FALSE,
                          data))

\* The 'Complete Setup' button is disabled while loading and while neither
\* channel is verified.
Complete ==
    /\ wiz.mounted /\ wiz.currentStep = 3
    /\ ~wiz.loading /\ (wiz.discordVerified \/ wiz.telegramVerified)
    /\ Task(HandleComplete(Begin(Cur, "complete")))

\* handleComplete called whatever the button's state
CompleteDirect ==
    /\ wiz.mounted /\ wiz.currentStep = 3
    /\ Task(HandleComplete(Begin(Cur, "complete")))

\* The backend records the completion when it answers with success.
CompleteResponse ==
    \E i \in 1..Len(net) :
        /\ net[i].ep = "/onboarding/complete"
        /\ \/ Task(HandleCompleteDone(
                     [Resume(Cur, "completeOk", i, "") EXCEPT
                        !.srv.completed = TRUE],
                     net[i], TRUE, [detail |-> ""]))
           \/ \E data \in FailData :
                Task(HandleCompleteDone(Resume(Cur, "completeFail", i, data.detail),
                                        net[i], FALSE, data))

\* A setTimeout callback runs: navigate(to)
TimerFire ==
    \E i \in 1..Len(timers) :
        Task(NavigateTo([Begin(Cur, "timer") EXCEPT
                           !.hist.own = timers[i].own,
                           !.timers = SubSeq(@, 1, i - 1)
                                      \o SubSeq(@, i + 1, Len(@))],
                        timers[i].to))

(***************************************************************************)
(* Actions: pages                                                          *)
(***************************************************************************)
WebhooksData == [some : BOOLEAN]
SecretData == [new_secret : {"sec2"}]
IncidentData == [status : {"open", "acknowledged", "resolved"}]

\* The form of SignupPage; its button is disabled while loading
Signup ==
    /\ pg.kind = "SignupPage" /\ ~pg.success /\ ~pg.loading
    /\ Task(SignupHandleSubmit(Begin(Cur, "signup")))

SignupResponse ==
    \E i \in 1..Len(net) :
        /\ net[i].ep = "POST /auth/signup"
        /\ \/ Task(SignupHandleSubmitDone(Resume(Cur, "signupOk", i, ""),
                                          net[i], TRUE, [detail |-> ""]))
           \/ \E data \in FailData :
                Task(SignupHandleSubmitDone(
                       Resume(Cur, "signupFail", i, data.detail), net[i], FALSE,
                       data))

LoadDataResponse ==
    \E i \in 1..Len(net) :
        /\ net[i].ep = "loadData"
        /\ \/ Task(LoadDataDone(Resume(Cur, "loadDataOk", i, ""), net[i], TRUE))
           \/ Task(LoadDataDone(Resume(Cur, "loadDataFail", i, ""), net[i],
                                FALSE))

\* 'Generate Report': rendered once loading is false, never disabled
GenerateReport ==
    /\ pg.kind = "Analytics" /\ ~pg.loading
    /\ Task(HandleGenerateReport(Begin(Cur, "generateReport")))

GenerateReportResponse ==
    \E i \in 1..Len(net) :
        /\ net[i].ep = "POST /api/analytics/reports/generate"
        /\ \/ Task(HandleGenerateReportDone(
                     Resume(Cur, "generateReportOk", i, ""), net[i], TRUE))
           \/ Task(HandleGenerateReportDone(
                     Resume(Cur, "generateReportFail", i, ""), net[i], FALSE))

LoadWebhooksResponse ==
    \E i \in 1..Len(net) :
        /\ net[i].ep = "GET /api/webhooks"
        /\ \/ \E data \in WebhooksData :
                Task(LoadWebhooksDone(Resume(Cur, "loadWebhooksOk", i, ""),
                                      net[i], TRUE, data))
           \/ Task(LoadWebhooksDone(Resume(Cur, "loadWebhooksFail", i, ""),
                                    net[i], FALSE, [some |-> FALSE]))

\* 'New Webhook' / 'Create Webhook'
OpenEditor ==
    /\ pg.kind = "WebhooksManagement" /\ ~pg.loading /\ ~pg.showEditor
    /\ Task([Begin(Cur, "openEditor") EXCEPT !.pg.showEditor = TRUE])

\* The edit button of a webhook's card
EditWebhook ==
    /\ pg.kind = "WebhooksManagement" /\ ~pg.loading /\ pg.webhooks
    /\ ~pg.showEditor
    /\ Task([Begin(Cur, "editWebhook") EXCEPT !.pg.editingWebhook = TRUE,
                                              !.pg.showEditor = TRUE])

\* onClose of the editor
CloseEditor ==
    /\ pg.kind = "WebhooksManagement" /\ ~pg.loading /\ pg.showEditor
    /\ Task([Begin(Cur, "closeEditor") EXCEPT !.pg.showEditor = FALSE,
                                               !.pg.editingWebhook = FALSE])

\* The editor's form is submitted; nothing disables its button
SaveWebhook ==
    /\ pg.kind = "WebhooksManagement" /\ ~pg.loading /\ pg.showEditor
    /\ Task(EditorHandleSubmit(Begin(Cur, "saveWebhook")))

SaveWebhookResponse ==
    \E i \in 1..Len(net) :
        /\ net[i].ep \in {"POST /api/webhooks", "PUT /api/webhooks/1"}
        /\ \/ Task(EditorHandleSubmitDone(Resume(Cur, "saveWebhookOk", i, ""),
                                          net[i], TRUE))
           \/ Task(EditorHandleSubmitDone(Resume(Cur, "saveWebhookFail", i, ""),
                                          net[i], FALSE))

\* The delete button of a webhook's card, and the answer to confirm()
DeleteWebhook ==
    /\ pg.kind = "WebhooksManagement" /\ ~pg.loading /\ pg.webhooks
    /\ \E confirmed \in BOOLEAN :
         Task(HandleDelete(Begin(Cur, "deleteWebhook"), confirmed))

DeleteWebhookResponse ==
    \E i \in 1..Len(net) :
        /\ net[i].ep = "DELETE /api/webhooks/1"
        /\ \/ Task(HandleDeleteDone(Resume(Cur, "deleteWebhookOk", i, ""),
                                    net[i], TRUE))
           \/ Task(HandleDeleteDone(Resume(Cur, "deleteWebhookFail", i, ""),
                                    net[i], FALSE))

\* The regenerate button of a webhook's card, and the answer to confirm()
RegenerateSecret ==
    /\ pg.kind = "WebhooksManagement" /\ ~pg.loading /\ pg.webhooks
    /\ \E confirmed \in BOOLEAN :
         Task(HandleRegenerateSecret(Begin(Cur, "regenerateSecret"), confirmed))

RegenerateSecretResponse ==
    \E i \in 1..Len(net) :
        /\ net[i].ep = "POST /api/webhooks/1/regenerate-secret"
        /\ \/ \E data \in SecretData :
                Task(HandleRegenerateSecretDone(
                       Resume(Cur, "regenerateSecretOk", i, ""), net[i], TRUE,
                       data))
           \/ Task(HandleRegenerateSecretDone(
                     Resume(Cur, "regenerateSecretFail", i, ""), net[i], FALSE,
                     [new_secret |-> ""]))

\* The link of an IncidentCard
OpenIncident ==
    /\ booted /\ pathname # IncidentPath
    /\ Task(NavigateTo(Begin(Cur, "navigate"), IncidentPath))

IncidentQueryResponse ==
    \E i \in 1..Len(net) :
        /\ net[i].ep = "GET /incidents/1"
        /\ \/ \E data \in IncidentData :
                Task(IncidentQueryDone(Resume(Cur, "incidentOk", i, ""), net[i],
                                       TRUE, data))
           \/ Task(IncidentQueryDone(Resume(Cur, "incidentFail", i, ""), net[i],
                                     FALSE, [status |-> "none"]))

\* refetchInterval: the query of the mounted page fetches again unless a fetch
\* is in flight
IncidentRefetch ==
    /\ pg.kind = "IncidentDetailPage"
    /\ \A i \in 1..Len(net) : ~(net[i].ep = "GET /incidents/1" /\ net[i].own)
    /\ Task(IncidentQueryCall(Begin(Cur, "refetch"), Mounted))

\* 'Acknowledge', 'Resolve', 'Mark Resolved': rendered for an open or
\* acknowledged incident, disabled while the mutation is pending
StatusUpdate ==
    /\ pg.kind = "IncidentDetailPage" /\ ~pg.loading /\ pg.error = ""
    /\ ~pg.isPending
    /\ \E newStatus \in {"acknowledged", "resolved"} :
         /\ \/ pg.status = "open"
            \/ pg.status = "acknowledged" /\ newStatus = "resolved"
         /\ Task(HandleStatusUpdate(Begin(Cur, "statusUpdate"), "1", newStatus))

StatusUpdateResponse ==
    \E i \in 1..Len(net) :
        /\ net[i].ep = "PATCH /incidents/1"
        /\ \/ Task(MutateAsyncDone(Resume(Cur, "statusUpdateOk", i, ""), net[i],
                                   TRUE))
           \/ Task(MutateAsyncDone(Resume(Cur, "statusUpdateFail", i, ""),
                                   net[i], FALSE))

(***************************************************************************)
(* Specifications                                                          *)
(***************************************************************************)
\* The application as App.tsx mounts it
Init == InitWith("app")

Next ==
    \/ Boot
    \/ Reload
    \/ Navigate
    \/ RefreshUser
    \/ RefreshUserResponse
    \/ Login
    \/ LoginResponse
    \/ Logout
    \/ LoadDataResponse
    \/ LoadWebhooksResponse

Spec == Init /\ [][Next]_vars

\* The wizard's tasks.  NextTestWebhook is left out: the view that offers it
\* (currentStep = 1 with webhookConfigured) is never rendered.
NextWizard ==
    \/ LoadStatusResponse
    \/ CreateWebhook
    \/ CreateWebhookResponse
    \/ ContinueToNotifications
    \/ IntervalTick
    \/ PollResponse
    \/ VerifyDiscord
    \/ VerifyTelegram
    \/ VerifyResponse
    \/ Complete
    \/ CompleteResponse
    \/ TimerFire

\* The application with the protected pages and the onboarding page wrapped in
\* ProtectedRoute: a user with a stored token opens the onboarding page or
\* the dashboard and neither logs in or out nor reloads.
InitOnboarding ==
    \E path \in {"/onboarding", "/dashboard"}, done \in BOOLEAN :
        StateIs(Fresh("guarded", [completed |-> done], "t1", path))

NextOnboarding ==
    \/ Boot
    \/ Navigate
    \/ RefreshUserResponse
    \/ NextWizard
    \/ LoadDataResponse
    \/ LoadWebhooksResponse

SpecOnboarding == InitOnboarding /\ [][NextOnboarding]_vars

\* The same, with handleComplete also called in the states in which its button
\* is disabled
SpecDirect == InitOnboarding /\ [][NextOnboarding \/ CompleteDirect]_vars

\* The user opens the link of the verification e-mail, from another page
OpenVerifyLink ==
    /\ booted
    /\ pathname \notin VerifyPaths
    /\ \E path \in VerifyPaths :
         Task(NavigateTo(Begin(Cur, "navigate"), path))

VerifyEmailResponse ==
    \E i \in 1..Len(net) :
        /\ net[i].ep = "GET /auth/verify-email"
        /\ \/ Task(VerifyEmailDone(Resume(Cur, "verifyEmailOk", i, ""), net[i],
                                   TRUE, [message |-> "verified"]))
           \/ \E data \in FailData :
                Task(VerifyEmailDone(Resume(Cur, "verifyEmailFail", i, data.detail),
                                     net[i], FALSE, data))

\* The wizard and the e-mail verification page: the two pages that set timers
SpecTimers ==
    InitOnboarding /\ [][NextOnboarding \/ OpenVerifyLink \/ VerifyEmailResponse]_vars

\* The user's actions on the pages
NextPages ==
    \/ Signup
    \/ SignupResponse
    \/ GenerateReport
    \/ GenerateReportResponse
    \/ OpenEditor
    \/ EditWebhook
    \/ CloseEditor
    \/ SaveWebhook
    \/ SaveWebhookResponse
    \/ DeleteWebhook
    \/ DeleteWebhookResponse
    \/ RegenerateSecret
    \/ RegenerateSecretResponse
    \/ OpenIncident
    \/ IncidentQueryResponse
    \/ IncidentRefetch
    \/ StatusUpdate
    \/ StatusUpdateResponse

\* The wizard and the pages
SpecPages == InitOnboarding /\ [][NextOnboarding \/ NextPages]_vars

\* ProtectedRoute on its own: any loading, user and path
InitRoute ==
    \E ld \in BOOLEAN, u \in {Null, User(FALSE), User(TRUE)},
       path \in Paths \cup {IncidentPath}, token \in StoredTokens :
        StateIs([Fresh("guarded", [completed |-> u.onboarding_completed], token,
                       path) EXCEPT !.booted = TRUE, !.loading = ld, !.user = u])

\* One render of <ProtectedRoute> around the page of the path: its outcome is
\* recorded and its <Navigate> is followed once.
RenderRoute ==
    /\ hist.act = "load"
    /\ \E e \in {ProtectedRoute(loading, user, pathname, PageOf(pathname))} :
         Commit([Begin(Cur, "route") EXCEPT
                   !.hist.outcome = IF e.kind = "page" THEN e.page ELSE e.kind,
                   !.pathname = IF e.kind = "redirect" THEN e.to ELSE @,
                   !.from = IF e.kind = "redirect" THEN e.from ELSE @])

SpecRoute == InitRoute /\ [][RenderRoute]_vars

\* A status whose current_step agrees with its flags
WellFormed(data) ==
    /\ data.current_step >= 2 => data.webhook_configured
    /\ data.current_step = 3 => data.webhook_test_received

\* loadStatus answered by a backend whose status is always well-formed
LoadStatusResponseWellFormed ==
    \E i \in 1..Len(net) :
        /\ net[i].ep = "/onboarding/status"
        /\ \/ \E data \in {d \in StatusData : WellFormed(d)} :
                Task(LoadStatusDone(Resume(Cur, "loadStatusOk", i, ""), net[i],
                                    TRUE, data))
           \/ Task(LoadStatusDone(Resume(Cur, "loadStatusFail", i, ""), net[i],
                                  FALSE, [detail |-> ""]))

NextWellFormed ==
    \/ Boot
    \/ Navigate
    \/ RefreshUserResponse
    \/ LoadStatusResponseWellFormed
    \/ CreateWebhook
    \/ CreateWebhookResponse
    \/ ContinueToNotifications
    \/ IntervalTick
    \/ PollResponse
    \/ VerifyDiscord
    \/ VerifyTelegram
    \/ VerifyResponse
    \/ Complete
    \/ CompleteResponse
    \/ TimerFire
    \/ LoadDataResponse
    \/ LoadWebhooksResponse

\* The wizard with a backend whose status is always well-formed
SpecWellFormed == InitOnboarding /\ [][NextWellFormed]_vars

(***************************************************************************)
(* Claims                                                                  *)
(***************************************************************************)
ProtectedPages == {PageOf(path) : path \in ProtectedPaths}
SentEps == {hist.sent[i].ep : i \in 1..Len(hist.sent)}

\* C1: once authentication loading has finished with no user set, a protected
\* route (/dashboard, /detections, /webhooks, /analytics) is not where the
\* application stays: it has redirected to /login and shows no protected page.
C1_GuestIsRedirectedToLogin ==
    (booted /\ ~loading /\ user = Null) =>
        /\ pathname \notin ProtectedPaths
        /\ Shown(Cur) \notin ProtectedPages

\* C6: a failed login stores no token, leaves user alone and rejects; only a
\* successful login stores the token and sets the user, in that order.
C6_FailedLoginLeavesSession ==
    [][/\ hist'.act = "loginFail" =>
            /\ access_token' = access_token
            /\ user' = user
            /\ hist'.trace = <<>>
            /\ hist'.rejected
       /\ hist'.act = "loginOk" =>
            /\ hist'.trace = <<"setItem", "setUser">>
            /\ access_token' \in Tokens
            /\ user' # Null
            /\ ~hist'.rejected
       /\ hist'.act = "login" => access_token' = access_token /\ user' = user
       /\ (\E i \in 1..Len(hist'.trace) : hist'.trace[i] = "setItem")
            => hist'.act = "loginOk"]_vars

\* C6 witness: a login failed while a session was stored and it is still there.
C6_Witness ==
    hist.act = "loginFail" /\ hist.rejected /\ access_token = "t1" /\ user # Null

\* C8: every request carries Authorization: Bearer <token> exactly when a token
\* is in local storage at the moment it is sent, with that token; a request
\* sent after logout or a failed refreshUser (and before another login)
\* carries no Authorization header.
C8_BearerIffTokenStored ==
    \A i \in 1..Len(hist.sent) :
        LET r == hist.sent[i] IN
        /\ r.auth.present <=> r.stored # NoToken
        /\ r.auth.present => r.auth.bearer = r.stored
        /\ r.stored = access_token
        /\ hist.cleared => ~r.auth.present

\* C8 witness: a request sent after the token was removed.
C8_Witness == hist.sent # <<>> /\ hist.cleared /\ ~hist.sent[1].auth.present

\* C9: the completion of an /auth/me request issued before a successful login
\* neither removes the token the login stored nor resets user to null.
C9_LoginNotUndoneByOlderRequest ==
    [][(/\ hist'.act \in {"refreshUserOk", "refreshUserFail"}
        /\ hist'.older
        /\ access_token # NoToken
        /\ user # Null)
       => (access_token' = access_token /\ user' # Null)]_vars

\* C2: while the mounted wizard is at step 2 with webhookConfigured and not
\* testReceived its interval is set and each tick issues one poll; a poll
\* response reporting received sets testReceived, clears polling, moves to
\* step 3 and clears the interval; and once a poll has reported received no
\* further poll is issued.
C2_PollingRunsUntilReceived ==
    /\ (wiz.mounted /\ PollCond(wiz)) => wiz.interval
    /\ hist.act = "tick" =>
         hist.sent = <<[ep |-> "/onboarding/test-status",
                        auth |-> Interceptor(access_token),
                        stored |-> access_token]>>
    /\ (hist.act = "pollReceived" /\ hist.own) =>
         /\ wiz.testReceived /\ ~wiz.polling /\ wiz.currentStep = 3
         /\ ~wiz.interval
    /\ wiz.sawReceived => ~wiz.interval /\ hist.act # "tick"

\* C3: an interval torn down by the unmount of the wizard or by a change of
\* the effect's dependencies issues no request: an interval is set only for
\* the mounted wizard while the effect's condition holds, and only then does a
\* tick issue a poll.
C3_TornDownIntervalIsSilent ==
    /\ ~wiz.mounted => ~wiz.interval
    /\ wiz.interval => PollCond(wiz)
    /\ hist.act = "tick" => wiz.mounted /\ PollCond(wiz)

\* C3 witness: the wizard has unmounted while it was polling (one of its polls
\* is still in flight) and no interval is set.
C3_Witness ==
    /\ ~wiz.mounted /\ ~wiz.interval
    /\ \E i \in 1..Len(net) :
         net[i].ep = "/onboarding/test-status" /\ ~net[i].own

\* C4: POST /onboarding/complete is sent only when Discord or Telegram is
\* verified; called with neither verified, handleComplete sets its error
\* message, sends nothing and leaves loading and currentStep as they are.
C4_CompleteNeedsVerifiedChannel ==
    [][/\ "/onboarding/complete" \in {hist'.sent[i].ep : i \in 1..Len(hist'.sent)}
            => (wiz.discordVerified \/ wiz.telegramVerified)
       /\ (hist'.act = "complete" /\ ~wiz.discordVerified /\ ~wiz.telegramVerified)
            => /\ wiz'.error = NotVerifiedMsg
               /\ hist'.sent = <<>>
               /\ wiz'.loading = wiz.loading
               /\ wiz'.currentStep = wiz.currentStep]_vars

\* C4 witness: handleComplete has run with neither channel verified.
C4_Witness ==
    /\ hist.act = "complete" /\ hist.sent = <<>>
    /\ ~wiz.discordVerified /\ ~wiz.telegramVerified
    /\ wiz.error = NotVerifiedMsg

\* C5: when POST /onboarding/webhook fails, the wizard that issued it shows the
\* server's detail or 'Failed to create webhook', loading is false again, and
\* currentStep, webhookConfigured, webhookUrl and webhookSecret are unchanged.
C5_FailedWebhookCreation ==
    [][(hist'.act = "createWebhookFail" /\ hist'.own) =>
         /\ wiz'.error = IF hist'.detail # "" THEN hist'.detail
                         ELSE "Failed to create webhook"
         /\ ~wiz'.loading
         /\ wiz'.currentStep = wiz.currentStep
         /\ wiz'.webhookConfigured = wiz.webhookConfigured
         /\ wiz'.webhookUrl = wiz.webhookUrl
         /\ wiz'.webhookSecret = wiz.webhookSecret]_vars

\* C5 witness: a creation has failed at step 1 with no detail from the server.
C5_Witness ==
    /\ hist.act = "createWebhookFail" /\ hist.own /\ wiz.mounted
    /\ wiz.error = "Failed to create webhook"
    /\ wiz.currentStep = 1 /\ ~wiz.webhookConfigured /\ ~wiz.loading

\* C10: after POST /onboarding/complete has succeeded, the delayed
\* navigate('/dashboard') of handleComplete leaves the signed-in user on
\* /dashboard: ProtectedRoute does not send them back to /onboarding.
C10_CompletionEndsOnDashboard ==
    (hist.act = "timer" /\ srv.completed /\ user # Null) =>
        pathname = "/dashboard" /\ Shown(Cur) = "Dashboard"

\* The actions of the user that issue a request, and the endpoints of each
UserActs ==
    {"signup", "createWebhook", "verifyDiscord", "verifyTelegram", "complete",
     "generateReport", "saveWebhook", "deleteWebhook", "regenerateSecret",
     "statusUpdate"}

UserEps(act) ==
    CASE act = "signup" -> {"POST /auth/signup"}
      [] act = "createWebhook" -> {"/onboarding/webhook"}
      [] act = "verifyDiscord" -> {"/onboarding/verify-discord"}
      [] act = "verifyTelegram" -> {"/onboarding/verify-telegram"}
      [] act = "complete" -> {"/onboarding/complete"}
      [] act = "generateReport" -> {"POST /api/analytics/reports/generate"}
      [] act = "saveWebhook" -> {"POST /api/webhooks", "PUT /api/webhooks/1"}
      [] act = "deleteWebhook" -> {"DELETE /api/webhooks/1"}
      [] act = "regenerateSecret" -> {"POST /api/webhooks/1/regenerate-secret"}
      [] act = "statusUpdate" -> {"PATCH /incidents/1"}
      [] OTHER -> {}

\* The continuations of their failed requests
FailedActs == {a \o "Fail" : a \in UserActs}

\* C7: no retry.  A request to the endpoint of a user-initiated action (signup,
\* webhook creation, Discord / Telegram verification, completion, report
\* generation, webhook save, delete, secret regeneration, incident status
\* update) is issued only by the task of that action of the user, which
\* issues at most one request; the continuation of a failed request issues no
\* request at all.
C7_NoRetry ==
    /\ \A i \in 1..Len(hist.sent) :
         hist.sent[i].ep \in UNION {UserEps(a) : a \in UserActs} =>
            /\ hist.act \in UserActs
            /\ hist.sent[i].ep \in UserEps(hist.act)
    /\ hist.act \in UserActs => Len(hist.sent) <= 1
    /\ hist.act \in FailedActs => hist.sent = <<>>

\* C7 witness: report generation has failed; the user was told and nothing
\* was sent again.
C7_Witness ==
    /\ hist.act = "generateReportFail"
    /\ hist.alert = "Failed to generate report"
    /\ hist.sent = <<>>

\* C11: when POST /onboarding/webhook succeeds for the wizard at step 1, the
\* wizard shows the 'Webhook configured successfully' view (currentStep = 1
\* with webhookConfigured) with the returned webhook_url and webhook_secret,
\* and it leaves that view for step 2 only by 'Next: Test Webhook'.
C11_CreatedWebhookIsShown ==
    [][/\ (hist'.act = "createWebhookOk" /\ hist'.own /\ wiz.currentStep = 1) =>
            /\ wiz'.currentStep = 1
            /\ wiz'.webhookConfigured
            /\ wiz'.webhookUrl = "url1"
            /\ wiz'.webhookSecret = "sec1"
       /\ (/\ wiz.mounted /\ wiz.currentStep = 1 /\ wiz.webhookConfigured
           /\ wiz'.mounted /\ wiz'.currentStep = 2) =>
            hist'.act = "nextTestWebhook"]_vars

\* C12: during the lifetime of one OnboardingWizard instance currentStep
\* never decreases and webhookConfigured and testReceived never change from
\* true to false.
C12_ProgressNeverGoesBackwards ==
    [][(wiz.mounted /\ wiz'.mounted /\ ~hist'.mounts) =>
         /\ wiz'.currentStep >= wiz.currentStep
         /\ wiz.webhookConfigured => wiz'.webhookConfigured
         /\ wiz.testReceived => wiz'.testReceived]_vars

\* C13: ProtectedRoute shows the spinner when loading; otherwise redirects to
\* /login, remembering the location, when user is null; otherwise redirects
\* to /onboarding when onboarding_completed is false and the path is not
\* /onboarding; otherwise renders its children.  Children are rendered iff
\* loading is false, user is non-null and (onboarding_completed or the path is
\* /onboarding), and /onboarding is never redirected to /onboarding.
C13_ProtectedRouteOutcome ==
    [][hist'.act = "route" =>
         /\ loading => hist'.outcome = "spinner" /\ pathname' = pathname
         /\ (~loading /\ user = Null) =>
              /\ hist'.outcome = "redirect"
              /\ pathname' = "/login"
              /\ from' = pathname
         /\ (/\ ~loading /\ user # Null /\ ~user.onboarding_completed
             /\ pathname # "/onboarding") =>
              hist'.outcome = "redirect" /\ pathname' = "/onboarding"
         /\ hist'.outcome \notin {"spinner", "redirect"} <=>
              /\ ~loading
              /\ user # Null
              /\ user.onboarding_completed \/ pathname = "/onboarding"
         /\ hist'.outcome \notin {"spinner", "redirect"} =>
              hist'.outcome = PageOf(pathname) /\ pathname' = pathname
         /\ ~(/\ pathname = "/onboarding" /\ hist'.outcome = "redirect"
              /\ pathname' = "/onboarding")]_vars

\* C13 witness: a guest on /dashboard was redirected to /login, which
\* remembers /dashboard.
C13_Witness ==
    /\ hist.act = "route" /\ hist.outcome = "redirect"
    /\ user = Null /\ pathname = "/login" /\ from = "/dashboard"

\* C14: when AuthProvider mounts with no access_token stored, loading becomes
\* false at once and no /auth/me is sent; with a token, /auth/me is sent and
\* loading stays true only while an /auth/me is in flight.  When /auth/me
\* succeeds, loading is false, user is the response and the token is kept;
\* when it fails, loading is false, the token is removed and user is null.
\* Once loading is false it is never true again in that AuthProvider.
C14_AuthLoadingEnds ==
    [][/\ (hist'.act = "boot" /\ access_token = NoToken) =>
            /\ ~loading'
            /\ "/auth/me" \notin {hist'.sent[i].ep : i \in 1..Len(hist'.sent)}
       /\ (hist'.act = "boot" /\ access_token # NoToken) =>
            "/auth/me" \in {hist'.sent[i].ep : i \in 1..Len(hist'.sent)}
       /\ (booted' /\ loading') => \E i \in 1..Len(net') : net'[i].ep = "/auth/me"
       /\ hist'.act = "refreshUserOk" =>
            /\ ~loading'
            /\ user' = User(srv.completed)
            /\ access_token' = access_token
       /\ hist'.act = "refreshUserFail" =>
            ~loading' /\ access_token' = NoToken /\ user' = Null
       /\ (booted /\ booted' /\ ~loading) => ~loading']_vars

\* C14 witness: the /auth/me of the mount has failed and loading has ended
\* with the token removed and no user.
C14_Witness ==
    /\ hist.act = "refreshUserFail" /\ ~hist.older
    /\ ~loading /\ access_token = NoToken /\ user = Null

\* C15: in every state of AuthProvider user is non-null only if an
\* access_token is in local storage, and isAuthenticated is true exactly when
\* user is non-null.
C15_UserOnlyWithToken ==
    /\ user # Null => access_token # NoToken
    /\ IsAuthenticated(user) <=> user # Null

\* C16: with status responses that are well-formed, the mounted wizard always
\* has currentStep in 1..3, currentStep >= 2 only with webhookConfigured and
\* currentStep = 3 only with testReceived; and a handler of the client that
\* moves the wizard to step 2 or 3 does so only with the corresponding flag
\* true.
C16_StepsNotSkipped ==
    [][/\ wiz'.mounted =>
            /\ wiz'.currentStep \in 1..3
            /\ wiz'.currentStep >= 2 => wiz'.webhookConfigured
            /\ wiz'.currentStep = 3 => wiz'.testReceived
       /\ (/\ hist'.act \in {"createWebhookOk", "nextTestWebhook"} /\ hist'.own
           /\ wiz'.mounted /\ wiz'.currentStep = 2) => wiz'.webhookConfigured
       /\ (/\ hist'.act \in {"pollReceived", "continue"} /\ hist'.own
           /\ wiz'.mounted /\ wiz'.currentStep = 3) => wiz'.testReceived]_vars

\* C17: a poll that fails or reports received = false changes nothing in the
\* wizard and leaves its interval set; a tick sends its poll whether or not
\* earlier polls are still in flight; and every 'received' response, one that
\* arrives after the interval was cleared included, leaves the wizard that
\* sent the poll at currentStep = 3 with testReceived.
C17_FailedPollKeepsPolling ==
    [][/\ hist'.act \in {"pollFail", "pollNotReceived"} => wiz' = wiz
       /\ hist'.act = "tick" =>
            /\ Len(hist'.sent) = 1
            /\ hist'.sent[1].ep = "/onboarding/test-status"
            /\ wiz'.interval
       /\ (hist'.act = "pollReceived" /\ hist'.own) =>
            wiz'.mounted /\ wiz'.currentStep = 3 /\ wiz'.testReceived]_vars

\* C17 witness: a poll has failed while another poll of the same interval is
\* in flight, and the interval is still set.
C17_Witness ==
    /\ hist.act = "pollFail" /\ hist.own
    /\ wiz.mounted /\ wiz.interval /\ wiz.currentStep = 2
    /\ \E i \in 1..Len(net) :
         net[i].ep = "/onboarding/test-status" /\ net[i].own /\ net[i].live

\* C18: a delayed redirect (to /login after a successful verification, to
\* /dashboard after a successful completion) runs only while the page that
\* scheduled it is still mounted: once that page has unmounted, it causes no
\* navigation.
C18_UnmountedPageDoesNotNavigate ==
    [][hist'.act = "timer" => hist'.own]_vars

====
